---- MODULE Spec2Model ----
(***************************************************************************)
(* A model of the installment-sale and webhook-reconciliation logic of the *)
(* back-office API:                                                        *)
(*   - create_client_lot   (app/api/routes/admin.py)                       *)
(*   - create_lot, update_lot (app/api/routes/admin.py)                    *)
(*   - AsaasService._request / create_payment (app/services/asaas.py)      *)
(*   - handle_asaas_webhook (app/api/routes/webhooks.py)                   *)
(*   - calculate_installments, validate_cpf (app/utils/helpers.py)         *)
(*   - create_client        (app/api/routes/admin.py)                      *)
(* The store (clients, lots, client_lots, invoices, notifications) is the  *)
(* shared state; every store call and every gateway call of a sale request *)
(* is one atomic step, so concurrent requests interleave between them.     *)
(* A .single() lookup that matches no row raises in the store client, and  *)
(* no handler catches it; the handlers' own "if not x.data" tests are for  *)
(* a client that yields no data.  Both outcomes are modelled.  The         *)
(* updated_at column is written by the code but read by no modelled        *)
(* decision; it is not part of the state.                                  *)
(* Dates are <<year, month, day>> and are stored as their ISO strings.     *)
(***************************************************************************)
EXTENDS Integers, Sequences, FiniteSets, TLC

VARIABLES
    lots,           \* lots table: lot id -> status
    client_lots,    \* client_lots table: sequence of rows, id = position
    invoices,       \* invoices table: sequence of rows, id = position
    payments,       \* payment records that exist at the gateway
    notifications,  \* notifications table: sequence of rows
    pc,             \* per sale request: the next step of create_client_lot
    req,            \* per sale request: the ClientLotCreate body
    cust,           \* per sale request: asaas_customer_id read with the client
    cl,             \* per sale request: id of the inserted client_lots row
    idx,            \* per sale request: loop variable i of the issuance loop
    attempt,        \* per sale request: attempt number inside _request
    pay,            \* per sale request: payment returned by create_payment
    result,         \* per sale request: the HTTP outcome
    gwCalled,       \* per sale request: installments whose create_payment was called
    gwFailed,       \* per sale request: installments whose create_payment raised
    insFailed,      \* per sale request: installments whose invoice insert raised
    last,           \* the webhook exchange in progress: the body, how often it
                    \* was delivered, the response and the clock reading of the
                    \* last delivery and the invoices and notifications tables
                    \* as that delivery found them
    plan,           \* the last call of calculate_installments: its arguments
                    \* and what it returned or raised
    hooks,          \* two concurrent webhook handlers: per handler its step,
                    \* body, clock reading, the invoice row it read and its
                    \* response; and the invoices table they started from
    check,          \* the last call of validate_cpf: its argument and verdicts
    signup          \* create_client: its step, the auth user, profile and
                    \* client record it created, and its outcome

vars == <<lots, client_lots, invoices, payments, notifications, pc, req, cust,
          cl, idx, attempt, pay, result, gwCalled, gwFailed, insFailed, last, plan,
          hooks, check, signup>>

\* the state of the operations that run beside sales and webhook deliveries
beside == <<hooks, check, signup>>

saleLocals == <<pc, req, cust, cl, idx, attempt, pay, result, gwCalled,
                gwFailed, insFailed>>

----------------------------------------------------------------------------
(* Bounds and program constants *)

\* largest total_installments a modelled request asks for (the schema allows 360)
MaxInstallments == 3

\* notifications table size at which the modelled webhook deliveries stop
MaxNotifications == 2

\* largest num_installments a modelled call of calculate_installments passes
MaxCount == 13

\* stop_after_attempt(3) of AsaasService._request
MaxAttempts == 3

\* the significant digits of the default decimal context
Precision == 28

\* the bits of a double's mantissa
MantissaBits == 53

None == "None"

NoPayment == <<>>

\* the concurrent sale requests
Procs == {"r1", "r2"}

----------------------------------------------------------------------------
(* Calendar dates, <<year, month, day>>, and dateutil's relativedelta *)

IsLeap(y) == y % 4 = 0 /\ (y % 100 # 0 \/ y % 400 = 0)

\* calendar.monthrange(y, m)[1]
DaysInMonth(y, m) ==
    IF m = 2 THEN (IF IsLeap(y) THEN 29 ELSE 28)
    ELSE IF m \in {4, 6, 9, 11} THEN 30 ELSE 31

\* relativedelta(months=n) for n >= 0: the constructor carries whole years out
\* of months, leaving months in 0..11
relativedelta(n) == [years |-> n \div 12, months |-> n % 12]

\* date + relativedelta: add the years, add the months and carry past December,
\* then cut the day down to the target month's length
AddDelta(dt, rd) ==
    LET m0 == dt[2] + rd.months
        year == dt[1] + rd.years + (IF m0 > 12 THEN 1 ELSE 0)
        month == IF m0 > 12 THEN m0 - 12 ELSE m0
        day == IF dt[3] < DaysInMonth(year, month)
                 THEN dt[3] ELSE DaysInMonth(year, month)
    IN  <<year, month, day>>

\* a due date reached by one month's step and then the remaining months' step
DueDate_Stepwise(first_due_date, i) ==
    IF i = 0 THEN first_due_date
    ELSE AddDelta(AddDelta(first_due_date, relativedelta(1)), relativedelta(i - 1))

\* helpers.py 111 and admin.py 712: first_due_date + relativedelta(months=i)
DueDate(first_due_date, i) == AddDelta(first_due_date, relativedelta(i))

Digit(n) == <<"0", "1", "2", "3", "4", "5", "6", "7", "8", "9">>[n + 1]

Str2(n) == Digit((n \div 10) % 10) \o Digit(n % 10)

\* date.isoformat(): YYYY-MM-DD
isoformat(dt) ==
    Str2(dt[1] \div 100) \o Str2(dt[1] % 100) \o "-" \o Str2(dt[2]) \o "-" \o Str2(dt[3])

----------------------------------------------------------------------------
(* The static tables *)

\* clients joined with profiles: client id -> profile id, asaas_customer_id
Clients ==
    [c \in {"c1", "c2", "c3"} |->
        CASE c = "c1" -> [profile_id |-> "p1", asaas_customer_id |-> "cus_1"]
          [] c = "c2" -> [profile_id |-> "p2", asaas_customer_id |-> "cus_2"]
          [] OTHER    -> [profile_id |-> "p3", asaas_customer_id |-> None]]

ClientIds == DOMAIN Clients

LotIds == {"l1", "l2", "l3"}

\* the id the store gives the lot that create_lot inserts
NewLotId == "l4"

\* the lots table before any sale: one lot on offer, one reserved, one sold
InitialLots ==
    [l \in LotIds |->
        CASE l = "l1" -> "available"
          [] l = "l2" -> "reserved"
          [] OTHER    -> "sold"]

LotStatus == {"available", "reserved", "sold"}

InvoiceStatus == {"pending", "paid", "overdue", "cancelled"}

\* first due dates of the modelled sale requests, as <<year, month, day>>: a
\* month's last day before a shorter month, and a day that the year's end follows
FirstDueDates == {<<2024, 1, 31>>, <<2023, 11, 30>>}

\* the ClientLotCreate bodies that pass schema validation, over small sets;
\* money is in whole currency units, which float() keeps as they are
Requests ==
    [client_id : ClientIds \cup {"c_missing"},
     lot_id : LotIds \cup {"l_missing"},
     total_value : {300},
     total_installments : 1..MaxInstallments,
     installment_value : {100, 150},
     first_due_date : FirstDueDates]

\* the bodies of the requests that race for a lot, one on offer from the start
\* or one that create_lot adds: single-installment plans
RaceRequests ==
    [client_id : {"c1", "c3"}, lot_id : {"l1", NewLotId}, total_value : {300},
     total_installments : {1}, installment_value : {100},
     first_due_date : {<<2024, 1, 31>>}]

\* the bodies of the sale whose schedule is compared with the helper's
PlanRequests ==
    [client_id : {"c1"}, lot_id : {"l1"}, total_value : {300},
     total_installments : 1..MaxInstallments, installment_value : {100},
     first_due_date : FirstDueDates]

\* how .single().execute() ends when no row matches: the store client raises,
\* which no handler catches (500), or it yields no data, the case that the
\* "if not x.data" test after the call is written for
SingleOutcomes == {"raises", "no_data"}

NoRequest ==
    [client_id |-> None, lot_id |-> None, total_value |-> 0,
     total_installments |-> 0, installment_value |-> 0,
     first_due_date |-> <<0, 0, 0>>]

----------------------------------------------------------------------------
(* create_client_lot: one action per store call or gateway call *)

Finish(p, outcome) ==
    /\ pc' = [pc EXCEPT ![p] = "done"]
    /\ result' = [result EXCEPT ![p] = outcome]

\* lines 654-662: read the client with its profile; when absent the lookup
\* raises, or yields no data and the handler answers 404
ReadClient(p, bodies) ==
    /\ pc[p] = "start"
    /\ \E r \in bodies :
        /\ req' = [req EXCEPT ![p] = r]
        /\ IF r.client_id \notin ClientIds
             THEN /\ \E single \in SingleOutcomes :
                        Finish(p, IF single = "raises" THEN "500 Internal Server Error"
                                  ELSE "404 Client not found")
                  /\ UNCHANGED cust
             ELSE /\ cust' = [cust EXCEPT ![p] = Clients[r.client_id].asaas_customer_id]
                  /\ pc' = [pc EXCEPT ![p] = "read_lot"]
                  /\ UNCHANGED result
    /\ UNCHANGED <<lots, client_lots, invoices, payments, notifications, cl, idx,
                   attempt, pay, gwCalled, gwFailed, insFailed, last, plan, beside>>

\* a lot read that turns away sold lots only
ReadLot_OnlySold(p) ==
    /\ pc[p] = "read_lot"
    /\ IF req[p].lot_id \notin DOMAIN lots
         THEN \E single \in SingleOutcomes :
                Finish(p, IF single = "raises" THEN "500 Internal Server Error"
                          ELSE "404 Lot not found")
         ELSE IF lots[req[p].lot_id] = "sold"
                THEN Finish(p, "400 Lot is not available for sale")
                ELSE /\ pc' = [pc EXCEPT ![p] = "insert_client_lot"]
                     /\ UNCHANGED result
    /\ UNCHANGED <<lots, client_lots, invoices, payments, notifications, req, cust,
                   cl, idx, attempt, pay, gwCalled, gwFailed, insFailed, last, plan, beside>>

\* lines 664-676: read the lot; when absent the lookup raises, or yields no
\* data and the handler answers 404; 400 unless the lot is available
ReadLot(p) ==
    /\ pc[p] = "read_lot"
    /\ IF req[p].lot_id \notin DOMAIN lots
         THEN \E single \in SingleOutcomes :
                Finish(p, IF single = "raises" THEN "500 Internal Server Error"
                          ELSE "404 Lot not found")
         ELSE IF lots[req[p].lot_id] # "available"
                THEN Finish(p, "400 Lot is not available for sale")
                ELSE /\ pc' = [pc EXCEPT ![p] = "insert_client_lot"]
                     /\ UNCHANGED result
    /\ UNCHANGED <<lots, client_lots, invoices, payments, notifications, req, cust,
                   cl, idx, attempt, pay, gwCalled, gwFailed, insFailed, last, plan, beside>>

\* lines 678-685: client_lot_data
ClientLotRow(r) ==
    [client_id |-> r.client_id, lot_id |-> r.lot_id, status |-> "active",
     total_value |-> r.total_value,
     total_installments |-> r.total_installments]

\* lines 678-693: insert the client_lots row; 500 when the store returns no data
InsertClientLot(p) ==
    /\ pc[p] = "insert_client_lot"
    /\ \/ /\ client_lots' = Append(client_lots, ClientLotRow(req[p]))
          /\ cl' = [cl EXCEPT ![p] = Len(client_lots) + 1]
          /\ pc' = [pc EXCEPT ![p] = "update_lot"]
          /\ UNCHANGED result
       \/ /\ Finish(p, "500 Failed to create client-lot relationship")
          /\ UNCHANGED <<client_lots, cl>>
    /\ UNCHANGED <<lots, invoices, payments, notifications, req, cust, idx,
                   attempt, pay, gwCalled, gwFailed, insFailed, last, plan, beside>>

\* a lot update that enters issuance whether or not the profile has a customer id
UpdateLot_AlwaysIssues(p) ==
    /\ pc[p] = "update_lot"
    /\ \/ /\ lots' = [lots EXCEPT ![req[p].lot_id] = "sold"]
          /\ pc' = [pc EXCEPT ![p] = "create_payment"]
          /\ UNCHANGED result
       \/ /\ Finish(p, "500 Internal Server Error")
          /\ UNCHANGED lots
    /\ UNCHANGED <<client_lots, invoices, payments, notifications, req, cust, cl,
                   idx, attempt, pay, gwCalled, gwFailed, insFailed, last, plan, beside>>

\* lines 695-702: mark the lot sold, then enter issuance when the profile has
\* a customer id; a store error here leaves the handler with an uncaught exception
UpdateLot(p) ==
    /\ pc[p] = "update_lot"
    /\ \/ /\ lots' = [lots EXCEPT ![req[p].lot_id] = "sold"]
          /\ pc' = [pc EXCEPT ![p] =
                        IF cust[p] # None THEN "create_payment" ELSE "return"]
          /\ UNCHANGED result
       \/ /\ Finish(p, "500 Internal Server Error")
          /\ UNCHANGED lots
    /\ UNCHANGED <<client_lots, invoices, payments, notifications, req, cust, cl,
                   idx, attempt, pay, gwCalled, gwFailed, insFailed, last, plan, beside>>

\* a handler that lets the failure out of create_client_lot
ExceptIssuance_Propagates(p) ==
    Finish(p, "500 Internal Server Error")

\* lines 735-736: except Exception around the whole loop: log and go on to the
\* response; nothing is rolled back and the loop is not resumed
ExceptIssuance(p) ==
    /\ pc' = [pc EXCEPT ![p] = "return"]
    /\ UNCHANGED result

\* the gateway's answer to POST payments
Payment(c, i, k) ==
    [id |-> <<c, i, k>>, bankSlipUrl |-> "slip_0", invoiceUrl |-> "url_0"]

\* a request that is sent once more after its third failure
RequestAttempt_Fourth(p) ==
    /\ pc[p] = "create_payment"
    /\ \E outcome \in {"ok", "error", "lost"} :
        LET i == idx[p] + 1
            new == Payment(cl[p], i, attempt[p])
        IN  /\ gwCalled' = [gwCalled EXCEPT ![p] = @ \cup {i}]
            /\ payments' = IF outcome = "error" THEN payments
                           ELSE payments \cup {new.id}
            /\ IF outcome = "ok"
                 THEN /\ pay' = [pay EXCEPT ![p] = new]
                      /\ attempt' = [attempt EXCEPT ![p] = 1]
                      /\ pc' = [pc EXCEPT ![p] = "insert_invoice"]
                      /\ UNCHANGED <<result, gwFailed>>
                 ELSE IF attempt[p] < MaxAttempts + 1
                        THEN /\ attempt' = [attempt EXCEPT ![p] = @ + 1]
                             /\ UNCHANGED <<pc, result, pay, gwFailed>>
                        ELSE /\ gwFailed' = [gwFailed EXCEPT ![p] = @ \cup {i}]
                             /\ attempt' = [attempt EXCEPT ![p] = 1]
                             /\ ExceptIssuance(p)
                             /\ UNCHANGED pay
    /\ UNCHANGED <<lots, client_lots, invoices, notifications, req, cust, cl, idx,
                   insFailed, last, plan, beside>>

\* asaas.py 22-41 under create_payment (95-124), called at admin.py 714-720:
\* one attempt of the POST.  It succeeds, or fails before the gateway created
\* the payment ("error"), or fails after it did ("lost": a timeout or a
\* dropped response); a failed attempt is retried until MaxAttempts, then raises.
RequestAttempt(p) ==
    /\ pc[p] = "create_payment"
    /\ \E outcome \in {"ok", "error", "lost"} :
        LET i == idx[p] + 1
            new == Payment(cl[p], i, attempt[p])
        IN  /\ gwCalled' = [gwCalled EXCEPT ![p] = @ \cup {i}]
            /\ payments' = IF outcome = "error" THEN payments
                           ELSE payments \cup {new.id}
            /\ IF outcome = "ok"
                 THEN /\ pay' = [pay EXCEPT ![p] = new]
                      /\ attempt' = [attempt EXCEPT ![p] = 1]
                      /\ pc' = [pc EXCEPT ![p] = "insert_invoice"]
                      /\ UNCHANGED <<result, gwFailed>>
                 ELSE IF attempt[p] < MaxAttempts
                        THEN /\ attempt' = [attempt EXCEPT ![p] = @ + 1]
                             /\ UNCHANGED <<pc, result, pay, gwFailed>>
                        ELSE /\ gwFailed' = [gwFailed EXCEPT ![p] = @ \cup {i}]
                             /\ attempt' = [attempt EXCEPT ![p] = 1]
                             /\ ExceptIssuance(p)
                             /\ UNCHANGED pay
    /\ UNCHANGED <<lots, client_lots, invoices, notifications, req, cust, cl, idx,
                   insFailed, last, plan, beside>>

\* invoice_data with the sale's total divided by the number of installments
InvoiceRow_Divided(c, i, r, payment) ==
    [client_lot_id |-> c, asaas_payment_id |-> payment.id,
     due_date |-> isoformat(DueDate(r.first_due_date, i - 1)),
     amount |-> r.total_value \div r.total_installments, status |-> "pending",
     installment_number |-> i, barcode |-> payment.bankSlipUrl,
     payment_url |-> payment.invoiceUrl, paid_at |-> None]

\* lines 712 and 722-731: invoice_data of installment i (i - 1 is the loop's i)
InvoiceRow(c, i, r, payment) ==
    [client_lot_id |-> c, asaas_payment_id |-> payment.id,
     due_date |-> isoformat(DueDate(r.first_due_date, i - 1)),
     amount |-> r.installment_value, status |-> "pending",
     installment_number |-> i, barcode |-> payment.bankSlipUrl,
     payment_url |-> payment.invoiceUrl, paid_at |-> None]

\* an insert that puts the new invoice before the ones already persisted
InsertInvoice_Prepend(p) ==
    /\ pc[p] = "insert_invoice"
    /\ \/ /\ invoices' = <<InvoiceRow(cl[p], idx[p] + 1, req[p], pay[p])>> \o invoices
          /\ idx' = [idx EXCEPT ![p] = @ + 1]
          /\ pc' = [pc EXCEPT ![p] =
                        IF idx[p] + 1 < req[p].total_installments
                          THEN "create_payment" ELSE "return"]
          /\ UNCHANGED <<result, insFailed>>
       \/ /\ insFailed' = [insFailed EXCEPT ![p] = @ \cup {idx[p] + 1}]
          /\ ExceptIssuance(p)
          /\ UNCHANGED <<invoices, idx>>
    /\ UNCHANGED <<lots, client_lots, payments, notifications, req, cust, cl,
                   attempt, pay, gwCalled, gwFailed, last, plan, beside>>

\* an insert whose failure skips the installment and lets the loop go on
InsertInvoice_SkipOnFailure(p) ==
    /\ pc[p] = "insert_invoice"
    /\ \/ /\ invoices' = Append(invoices,
                                InvoiceRow(cl[p], idx[p] + 1, req[p], pay[p]))
          /\ idx' = [idx EXCEPT ![p] = @ + 1]
          /\ pc' = [pc EXCEPT ![p] =
                        IF idx[p] + 1 < req[p].total_installments
                          THEN "create_payment" ELSE "return"]
          /\ UNCHANGED <<result, insFailed>>
       \/ /\ insFailed' = [insFailed EXCEPT ![p] = @ \cup {idx[p] + 1}]
          /\ idx' = [idx EXCEPT ![p] = @ + 1]
          /\ pc' = [pc EXCEPT ![p] =
                        IF idx[p] + 1 < req[p].total_installments
                          THEN "create_payment" ELSE "return"]
          /\ UNCHANGED <<invoices, result>>
    /\ UNCHANGED <<lots, client_lots, payments, notifications, req, cust, cl,
                   attempt, pay, gwCalled, gwFailed, last, plan, beside>>

\* lines 722-733 and the loop head 711: insert the invoice of installment i+1
\* and move to the next installment; a store error raises into the except
InsertInvoice(p) ==
    /\ pc[p] = "insert_invoice"
    /\ \/ /\ invoices' = Append(invoices,
                                InvoiceRow(cl[p], idx[p] + 1, req[p], pay[p]))
          /\ idx' = [idx EXCEPT ![p] = @ + 1]
          /\ pc' = [pc EXCEPT ![p] =
                        IF idx[p] + 1 < req[p].total_installments
                          THEN "create_payment" ELSE "return"]
          /\ UNCHANGED <<result, insFailed>>
       \/ /\ insFailed' = [insFailed EXCEPT ![p] = @ \cup {idx[p] + 1}]
          /\ ExceptIssuance(p)
          /\ UNCHANGED <<invoices, idx>>
    /\ UNCHANGED <<lots, client_lots, payments, notifications, req, cust, cl,
                   attempt, pay, gwCalled, gwFailed, last, plan, beside>>

\* lines 738-753: the 201 response carrying the client_lots row
Return(p) ==
    /\ pc[p] = "return"
    /\ Finish(p, "201 Created")
    /\ UNCHANGED <<lots, client_lots, invoices, payments, notifications, req, cust,
                   cl, idx, attempt, pay, gwCalled, gwFailed, insFailed, last, plan, beside>>

\* no webhook exchange is open
NoWebhook == [deliveries |-> 0]

\* calculate_installments was not called
NoPlan == [called |-> FALSE]

\* no concurrent webhook handlers
NoHooks == [racing |-> FALSE]

\* validate_cpf was not called
NoCheck == [called |-> FALSE]

\* create_client was not called
NoSignup == [pc |-> "idle"]

\* the store before any sale of the modelled requests
Init ==
    /\ lots = InitialLots
    /\ client_lots = <<>>
    /\ invoices = <<>>
    /\ payments = {}
    /\ notifications = <<>>
    /\ pc = [p \in Procs |-> "start"]
    /\ req = [p \in Procs |-> NoRequest]
    /\ cust = [p \in Procs |-> None]
    /\ cl = [p \in Procs |-> 0]
    /\ idx = [p \in Procs |-> 0]
    /\ attempt = [p \in Procs |-> 1]
    /\ pay = [p \in Procs |-> Payment(0, 0, 0)]
    /\ result = [p \in Procs |-> None]
    /\ gwCalled = [p \in Procs |-> {}]
    /\ gwFailed = [p \in Procs |-> {}]
    /\ insFailed = [p \in Procs |-> {}]
    /\ last = NoWebhook
    /\ plan = NoPlan
    /\ hooks = NoHooks
    /\ check = NoCheck
    /\ signup = NoSignup

SaleStep(p, bodies) ==
    \/ ReadClient(p, bodies)
    \/ ReadLot(p)
    \/ InsertClientLot(p)
    \/ UpdateLot(p)
    \/ RequestAttempt(p)
    \/ InsertInvoice(p)
    \/ Return(p)

\* one sale request, run from its arrival to its response
Next == SaleStep("r1", Requests)

Spec == Init /\ [][Next]_vars

----------------------------------------------------------------------------
(* create_lot and update_lot: the other writers of the lots table *)

\* the LotCreate bodies that pass schema validation: the status field, which
\* is any LotStatus and defaults to available
LotCreates == [status : LotStatus]

\* the update_lot calls: the path's lot_id and the LotUpdate body's status
\* field, which is any LotStatus or absent
LotUpdates ==
    [lot_id : {"l1", NewLotId, "l_missing"}, status : LotStatus \cup {None}]

\* admin.py 546-592: insert a lot with the status of the body, whatever it is,
\* and answer 201.  A body naming no development (404) and an insert that
\* returns no data (500) leave the table as it was.  One lot is created.
create_lot ==
    /\ NewLotId \notin DOMAIN lots
    /\ \E c \in LotCreates : lots' = lots @@ (NewLotId :> c.status)
    /\ UNCHANGED <<client_lots, invoices, payments, notifications, saleLocals,
                   last, plan, beside>>

\* admin.py 595-625: write the fields the body carries on the row of lot_id
\* and answer 200, or 404 when the update matched no row.  The status is
\* written as given: client_lots is not read.
update_lot ==
    /\ \E u \in LotUpdates :
          lots' = IF u.lot_id \in DOMAIN lots /\ u.status # None
                    THEN [lots EXCEPT ![u.lot_id] = u.status]
                    ELSE lots
    /\ UNCHANGED <<client_lots, invoices, payments, notifications, saleLocals,
                   last, plan, beside>>

\* two sale requests for the same lot, their store calls interleaved with each
\* other and with the administration of lots
NextRace ==
    \/ \E p \in Procs : SaleStep(p, RaceRequests)
    \/ create_lot
    \/ update_lot

SpecRace == Init /\ [][NextRace]_vars

----------------------------------------------------------------------------
(* calculate_installments *)

\* A Decimal is written as its sign, its integer part and its digits after the
\* point, int + digits[1]/10 + digits[2]/100 + ...; the totals of the modelled
\* calls are whole numbers.

RECURSIVE NumDigits(_)
NumDigits(n) == IF n < 10 THEN 1 ELSE 1 + NumDigits(n \div 10)

\* long division: the digits after the point of rem / b, until the division
\* ends or `room` significant digits are written (zeros ahead of the first
\* non-zero digit of the quotient are not significant)
RECURSIVE FracDigits(_, _, _, _)
FracDigits(rem, b, room, started) ==
    IF rem = 0 \/ room = 0
      THEN [digits |-> <<>>, rem |-> rem]
      ELSE LET d == (10 * rem) \div b
               s == started \/ d # 0
               rest == FracDigits((10 * rem) % b, b, IF s THEN room - 1 ELSE room, s)
           IN  [digits |-> <<d>> \o rest.digits, rem |-> rest.rem]

\* one unit more in the last place of a digit sequence of the given base: the
\* last digit below base - 1 goes up by one and the digits after it become 0;
\* without such a digit the carry is for the integer part
Increment(ds, base) ==
    LET below == {k \in DOMAIN ds : ds[k] < base - 1}
        last_below == CHOOSE k \in below : \A j \in below : j <= k
    IN  IF below = {}
          THEN [digits |-> [k \in DOMAIN ds |-> 0], carry |-> 1]
          ELSE [digits |-> [k \in DOMAIN ds |->
                              IF k < last_below THEN ds[k]
                              ELSE IF k = last_below THEN ds[k] + 1 ELSE 0],
                carry |-> 0]

\* the last place of a number written as an integer part and a digit sequence
LastPlace(int, ds) == IF ds = <<>> THEN int ELSE ds[Len(ds)]

\* line 108, total / num_installments for num_installments # 0: Decimal
\* division under the default context, which keeps Precision significant
\* digits and rounds the rest half-even.  The sign of the quotient is the
\* exclusive or of the signs, also for a zero quotient (Decimal('-0')).
DecimalDivide(a, b) ==
    LET n == IF a < 0 THEN 0 - a ELSE a
        m == IF b < 0 THEN 0 - b ELSE b
        int == n \div m
        long == FracDigits(n % m, m,
                           IF int > 0 THEN Precision - NumDigits(int) ELSE Precision,
                           int > 0)
        up == \/ 2 * long.rem > m
              \/ 2 * long.rem = m /\ LastPlace(int, long.digits) % 2 = 1
        inc == Increment(long.digits, 10)
    IN  [negative |-> (a < 0) # (b < 0),
         int |-> IF up THEN int + inc.carry ELSE int,
         digits |-> IF up THEN inc.digits ELSE long.digits]

\* twice the fraction 0.ds: its digits, and the carry into the units.  A place
\* receives a carry exactly when the digit to its right is 5 or more.
Double(ds) ==
    LET carry(k) == IF k <= Len(ds) /\ ds[k] >= 5 THEN 1 ELSE 0
    IN  [digits |-> [k \in 1..Len(ds) |-> (2 * ds[k] + carry(k + 1)) % 10],
         carry |-> carry(1)]

IsZero(ds) == \A k \in DOMAIN ds : ds[k] = 0

RECURSIVE BitLength(_)
BitLength(n) == IF n = 0 THEN 0 ELSE 1 + BitLength(n \div 2)

\* the first n bits after the binary point of the fraction 0.ds, and what is
\* left of the fraction after them; a bit is the carry of a doubling
RECURSIVE FracBits(_, _)
FracBits(ds, n) ==
    IF n = 0 THEN [bits |-> <<>>, rest |-> ds]
    ELSE IF n = 1
      THEN LET dbl == Double(ds) IN [bits |-> <<dbl.carry>>, rest |-> dbl.digits]
      ELSE LET fst == FracBits(ds, n \div 2)
               snd == FracBits(fst.rest, n - n \div 2)
           IN  [bits |-> fst.bits \o snd.bits, rest |-> snd.rest]

\* the zero bits ahead of the first one bit of a non-zero fraction 0.ds
RECURSIVE LeadingZeros(_)
LeadingZeros(ds) ==
    LET dbl == Double(ds)
    IN  IF dbl.carry = 1 THEN 0 ELSE 1 + LeadingZeros(dbl.digits)

\* a bit sequence without its trailing zero bits
StripZeros(bs) ==
    LET ones == {k \in DOMAIN bs : bs[k] = 1}
    IN  SubSeq(bs, 1, IF ones = {} THEN 0
                      ELSE CHOOSE k \in ones : \A j \in ones : j <= k)

\* line 115, float(installment_value): the double nearest to the Decimal, ties
\* to the even mantissa.  A double is written as its sign, its integer part
\* and its bits after the binary point, int + bits[1]/2 + bits[2]/4 + ...,
\* without trailing zero bits; the amounts of the modelled calls are far from
\* the range's ends, where a double has fewer bits or none.
float(d) ==
    LET lead == IF d.int > 0 \/ IsZero(d.digits) THEN 0 ELSE LeadingZeros(d.digits)
        cut == FracBits(d.digits, lead + MantissaBits - BitLength(d.int))
        half == Double(cut.rest)
        up == /\ half.carry = 1
              /\ \/ ~IsZero(half.digits)
                 \/ LastPlace(d.int, cut.bits) % 2 = 1
        inc == Increment(cut.bits, 2)
    IN  [negative |-> d.negative,
         int |-> IF up THEN d.int + inc.carry ELSE d.int,
         bits |-> StripZeros(IF up THEN inc.digits ELSE cut.bits)]

\* the arguments of the modelled calls
Totals == {0 - 100, 0, 1200}

Counts == (0 - 1)..MaxCount

HelperDates == {<<2024, 1, 31>>, <<2023, 11, 30>>, <<2023, 1, 29>>, <<2099, 12, 31>>}

\* helpers.py 100-119: what the call returns, or the exception it raises.  The
\* division of line 108 raises for a count of 0: decimal.DivisionByZero, which
\* is a ZeroDivisionError, for a non-zero total, and decimal.InvalidOperation,
\* which is not, for Decimal(0) / 0.  range() of a negative count is empty.
\* Entry i of the list is the loop's round i - 1.
calculate_installments(total, num_installments, first_due_date) ==
    IF num_installments = 0
      THEN [raised |-> IF total = 0 THEN "InvalidOperation" ELSE "ZeroDivisionError",
            returned |-> <<>>]
      ELSE LET installment_value == DecimalDivide(total, num_installments)
           IN  [raised |-> None,
                returned |->
                  [i \in 1..num_installments |->
                      [number |-> i,
                       value |-> float(installment_value),
                       due_date |-> isoformat(DueDate(first_due_date, i - 1))]]]

\* a call of calculate_installments
Generate ==
    /\ plan = NoPlan
    /\ \E total \in Totals, n \in Counts, d \in HelperDates :
        plan' = [called |-> TRUE, total |-> total, num_installments |-> n,
                 first_due_date |-> d,
                 result |-> calculate_installments(total, n, d)]
    /\ UNCHANGED <<lots, client_lots, invoices, payments, notifications,
                   saleLocals, last, beside>>

\* The helper is pure and shares no state with a sale, so a behaviour computes
\* one schedule: it calls the helper, or it runs a sale through its issuance loop.
NextPlan ==
    \/ pc["r1"] = "start" /\ Generate
    \/ plan = NoPlan /\ SaleStep("r1", PlanRequests)

\* the two places that compute a schedule
SpecPlan == Init /\ [][NextPlan]_vars

----------------------------------------------------------------------------
(* handle_asaas_webhook: the whole handler is one step *)

\* the event names of the gateway: the twelve of the handler's table, one the
\* table does not hold, and "" for a body without an event
RecognizedEvents ==
    {"PAYMENT_RECEIVED", "PAYMENT_CONFIRMED", "PAYMENT_OVERDUE",
     "PAYMENT_DELETED", "PAYMENT_RESTORED", "PAYMENT_REFUNDED",
     "PAYMENT_RECEIVED_IN_CASH_UNDONE", "PAYMENT_CHARGEBACK_REQUESTED",
     "PAYMENT_CHARGEBACK_DISPUTE", "PAYMENT_AWAITING_CHARGEBACK_REVERSAL",
     "PAYMENT_DUNNING_RECEIVED", "PAYMENT_DUNNING_REQUESTED"}

Events == RecognizedEvents \cup {"PAYMENT_CREATED", ""}

\* a payment id no invoice carries
UnknownPayment == <<9, 9, 9>>

\* the "payment" object of a body; a key that is absent is None (NoPayment for
\* the id), and the object with every key absent is the empty object
PaymentDicts ==
    [id : {NoPayment, UnknownPayment, Payment(2, 1, 1).id},
     paymentDate : {None, "D1"},
     bankSlipUrl : {None, "", "slip_1"},
     invoiceUrl : {None, "", "url_1"}]

WebhookRequests == [event : Events, payment : PaymentDicts]

\* the values utcnow() takes
Times == {"T1", "T2"}

\* Python truth of a string-or-None value
Truthy(v) == v # None /\ v # ""

EmptyDict(payment) ==
    /\ payment.id = NoPayment
    /\ payment.paymentDate = None
    /\ payment.bankSlipUrl = None
    /\ payment.invoiceUrl = None

\* a table that maps one event to another status than the handler's
status_mapping_Swapped(event) ==
    CASE event \in {"PAYMENT_RECEIVED", "PAYMENT_CONFIRMED"} -> "paid"
      [] event \in {"PAYMENT_OVERDUE", "PAYMENT_CHARGEBACK_REQUESTED",
                    "PAYMENT_CHARGEBACK_DISPUTE",
                    "PAYMENT_AWAITING_CHARGEBACK_REVERSAL",
                    "PAYMENT_DUNNING_REQUESTED", "PAYMENT_DUNNING_RECEIVED"} -> "overdue"
      [] event \in {"PAYMENT_DELETED", "PAYMENT_REFUNDED"} -> "cancelled"
      [] event \in {"PAYMENT_RESTORED", "PAYMENT_RECEIVED_IN_CASH_UNDONE"} -> "pending"
      [] OTHER -> None

\* a table that gives a status to every event name
status_mapping_Default(event) ==
    CASE event \in {"PAYMENT_RECEIVED", "PAYMENT_CONFIRMED",
                    "PAYMENT_DUNNING_RECEIVED"} -> "paid"
      [] event \in {"PAYMENT_OVERDUE", "PAYMENT_CHARGEBACK_REQUESTED",
                    "PAYMENT_CHARGEBACK_DISPUTE",
                    "PAYMENT_AWAITING_CHARGEBACK_REVERSAL",
                    "PAYMENT_DUNNING_REQUESTED"} -> "overdue"
      [] event \in {"PAYMENT_DELETED", "PAYMENT_REFUNDED"} -> "cancelled"
      [] OTHER -> "pending"

\* lines 52-67: status_mapping.get(event)
status_mapping(event) ==
    CASE event = "PAYMENT_RECEIVED" -> "paid"
      [] event = "PAYMENT_CONFIRMED" -> "paid"
      [] event = "PAYMENT_OVERDUE" -> "overdue"
      [] event = "PAYMENT_DELETED" -> "cancelled"
      [] event = "PAYMENT_RESTORED" -> "pending"
      [] event = "PAYMENT_REFUNDED" -> "cancelled"
      [] event = "PAYMENT_RECEIVED_IN_CASH_UNDONE" -> "pending"
      [] event = "PAYMENT_CHARGEBACK_REQUESTED" -> "overdue"
      [] event = "PAYMENT_CHARGEBACK_DISPUTE" -> "overdue"
      [] event = "PAYMENT_AWAITING_CHARGEBACK_REVERSAL" -> "overdue"
      [] event = "PAYMENT_DUNNING_RECEIVED" -> "paid"
      [] event = "PAYMENT_DUNNING_REQUESTED" -> "overdue"
      [] OTHER -> None

\* lines 45-47: the invoice whose asaas_payment_id is the event's; 0 when no
\* invoice carries it, where .single() raises or yields no data
FindInvoice(payment_id) ==
    IF \E n \in DOMAIN invoices : invoices[n].asaas_payment_id = payment_id
      THEN CHOOSE n \in DOMAIN invoices : invoices[n].asaas_payment_id = payment_id
      ELSE 0

\* an update that moves the stored barcode into payment_url when the event
\* carries a bank slip URL
UpdatedInvoice_Mixed(inv, new_status, payment, now) ==
    [inv EXCEPT
        !.status = new_status,
        !.paid_at = IF new_status = "paid"
                      THEN (IF Truthy(payment.paymentDate)
                              THEN payment.paymentDate ELSE now)
                      ELSE @,
        !.barcode = IF Truthy(payment.bankSlipUrl) THEN payment.bankSlipUrl ELSE @,
        !.payment_url = IF Truthy(payment.bankSlipUrl) THEN inv.barcode
                        ELSE IF Truthy(payment.invoiceUrl)
                               THEN payment.invoiceUrl ELSE @]

\* an update that takes a payment date in the event for a payment received
UpdatedInvoice_PaidByDate(inv, new_status, payment, now) ==
    [inv EXCEPT
        !.status = IF Truthy(payment.paymentDate) THEN "paid" ELSE new_status,
        !.paid_at = IF new_status = "paid"
                      THEN (IF Truthy(payment.paymentDate)
                              THEN payment.paymentDate ELSE now)
                      ELSE @,
        !.barcode = IF Truthy(payment.bankSlipUrl) THEN payment.bankSlipUrl ELSE @,
        !.payment_url = IF Truthy(payment.invoiceUrl) THEN payment.invoiceUrl ELSE @]

\* an update that clears paid_at when the new status is not paid
UpdatedInvoice_ClearsPaidAt(inv, new_status, payment, now) ==
    [inv EXCEPT
        !.status = new_status,
        !.paid_at = IF new_status = "paid"
                      THEN (IF Truthy(payment.paymentDate)
                              THEN payment.paymentDate ELSE now)
                      ELSE None,
        !.barcode = IF Truthy(payment.bankSlipUrl) THEN payment.bankSlipUrl ELSE @,
        !.payment_url = IF Truthy(payment.invoiceUrl) THEN payment.invoiceUrl ELSE @]

\* an update that stamps the processing time on every paid invoice
UpdatedInvoice_PaidAtNow(inv, new_status, payment, now) ==
    [inv EXCEPT
        !.status = new_status,
        !.paid_at = IF new_status = "paid" THEN now ELSE @,
        !.barcode = IF Truthy(payment.bankSlipUrl) THEN payment.bankSlipUrl ELSE @,
        !.payment_url = IF Truthy(payment.invoiceUrl) THEN payment.invoiceUrl ELSE @]

\* an update that writes every URL key the event carries, empty or not
UpdatedInvoice_EmptyOverwrites(inv, new_status, payment, now) ==
    [inv EXCEPT
        !.status = new_status,
        !.paid_at = IF new_status = "paid"
                      THEN (IF Truthy(payment.paymentDate)
                              THEN payment.paymentDate ELSE now)
                      ELSE @,
        !.barcode = IF payment.bankSlipUrl # None THEN payment.bankSlipUrl ELSE @,
        !.payment_url = IF payment.invoiceUrl # None THEN payment.invoiceUrl ELSE @]

\* lines 72-85: the row after update(update_data): status always, paid_at when
\* the new status is paid, barcode and payment_url when the event carries them
UpdatedInvoice(inv, new_status, payment, now) ==
    [inv EXCEPT
        !.status = new_status,
        !.paid_at = IF new_status = "paid"
                      THEN (IF Truthy(payment.paymentDate)
                              THEN payment.paymentDate ELSE now)
                      ELSE @,
        !.barcode = IF Truthy(payment.bankSlipUrl) THEN payment.bankSlipUrl ELSE @,
        !.payment_url = IF Truthy(payment.invoiceUrl) THEN payment.invoiceUrl ELSE @]

\* lines 87-104: the rows inserted into notifications for the invoice read at
\* line 45: one row when the new status is overdue and the client_lots row exists
OverdueNotifications(inv, new_status) ==
    IF new_status = "overdue" /\ inv.client_lot_id \in DOMAIN client_lots
      THEN <<[user_id |-> Clients[client_lots[inv.client_lot_id].client_id].profile_id,
              type |-> "payment_overdue",
              amount |-> inv.amount,
              is_read |-> FALSE]>>
      ELSE <<>>

\* the response object; a key the code leaves out is None (0 for invoice_id)
Response(status, reason, event, invoice_id, new_status) ==
    [status |-> status, reason |-> reason, event |-> event,
     invoice_id |-> invoice_id, new_status |-> new_status]

\* how the store calls of a delivery end.  single: what a .single() lookup
\* without a row does (lines 45-47, 88-90).  notify: the two calls of the
\* notification path (the client_lots lookup of lines 88-90, the insert of
\* line 104) both return, or one of them raises on a store fault.
StoreOutcomes ==
    [single : SingleOutcomes, notify : {"ok", "lookup_raises", "insert_raises"}]

\* the stores without faults
SoundStores == {store \in StoreOutcomes : store.notify = "ok"}

\* lines 87-104 with a store call that raises: the lookup raises whenever it is
\* made, the insert whenever the lookup returned a row
NotificationRaises(inv, new_status, store) ==
    /\ new_status = "overdue"
    /\ \/ store.notify = "lookup_raises"
       \/ store.single = "raises" /\ inv.client_lot_id \notin DOMAIN client_lots
       \/ store.notify = "insert_raises" /\ OverdueNotifications(inv, new_status) # <<>>

\* a handler that answers 401 unless the header carries the token tok_a
handle_asaas_webhook_Authenticated(r, now, store) ==
    LET payment == r.payment
        n == FindInvoice(payment.id)
        new_status == status_mapping(r.event)
        untouched(resp) ==
            [invoices |-> invoices, notifications |-> notifications, resp |-> resp]
    IN  IF r.token # "tok_a"
          THEN untouched(Response("401", "Invalid token", None, 0, None))
        ELSE IF ~Truthy(r.event) \/ EmptyDict(payment)
          THEN untouched(Response("400", "Missing event or payment data", None, 0, None))
        ELSE IF payment.id = NoPayment
          THEN untouched(Response("ignored", "No payment ID", None, 0, None))
        ELSE IF n = 0
          THEN untouched(IF store.single = "raises"
                           THEN Response("500", "Internal Server Error", None, 0, None)
                           ELSE Response("ignored", "Invoice not found", None, 0, None))
        ELSE IF new_status = None
          THEN untouched(Response("ignored", "Unhandled event", r.event, 0, None))
        ELSE IF NotificationRaises(invoices[n], new_status, store)
          THEN [invoices |->
                  [invoices EXCEPT ![n] = UpdatedInvoice(@, new_status, payment, now)],
                notifications |-> notifications,
                resp |-> Response("500", "Internal Server Error", None, 0, None)]
        ELSE [invoices |->
                [invoices EXCEPT ![n] = UpdatedInvoice(@, new_status, payment, now)],
              notifications |->
                notifications \o OverdueNotifications(invoices[n], new_status),
              resp |-> Response("processed", None, r.event, n, new_status)]

\* lines 13-111: the store after the handler and its response.  No try encloses
\* the lookup of lines 45-47 or lines 87-104: a lookup that raises for want of
\* a row ends the handler before any write, and a store call that raises in
\* lines 87-104 ends it after the update of line 85 was executed.
handle_asaas_webhook(r, now, store) ==
    LET payment == r.payment
        n == FindInvoice(payment.id)
        new_status == status_mapping(r.event)
        untouched(resp) ==
            [invoices |-> invoices, notifications |-> notifications, resp |-> resp]
    IN  IF ~Truthy(r.event) \/ EmptyDict(payment)
          THEN untouched(Response("400", "Missing event or payment data", None, 0, None))
        ELSE IF payment.id = NoPayment
          THEN untouched(Response("ignored", "No payment ID", None, 0, None))
        ELSE IF n = 0
          THEN untouched(IF store.single = "raises"
                           THEN Response("500", "Internal Server Error", None, 0, None)
                           ELSE Response("ignored", "Invoice not found", None, 0, None))
        ELSE IF new_status = None
          THEN untouched(Response("ignored", "Unhandled event", r.event, 0, None))
        ELSE IF NotificationRaises(invoices[n], new_status, store)
          THEN [invoices |->
                  [invoices EXCEPT ![n] = UpdatedInvoice(@, new_status, payment, now)],
                notifications |-> notifications,
                resp |-> Response("500", "Internal Server Error", None, 0, None)]
        ELSE [invoices |->
                [invoices EXCEPT ![n] = UpdatedInvoice(@, new_status, payment, now)],
              notifications |->
                notifications \o OverdueNotifications(invoices[n], new_status),
              resp |-> Response("processed", None, r.event, n, new_status)]

\* the gateway posts an event and the handler runs on it, at time now and with
\* the notification path's store calls ending as one of outcomes
DeliverWith(outcomes) ==
    /\ last = NoWebhook
    /\ Len(notifications) < MaxNotifications
    /\ \E r \in WebhookRequests, now \in Times, store \in outcomes :
        LET h == handle_asaas_webhook(r, now, store)
        IN  /\ invoices' = h.invoices
            /\ notifications' = h.notifications
            /\ last' = [req |-> r, resp |-> h.resp, deliveries |-> 1, now |-> now,
                         pre_invoices |-> invoices,
                         pre_notifications |-> notifications]
    /\ UNCHANGED <<lots, client_lots, payments, saleLocals, plan, beside>>

\* at-least-once delivery: the gateway posts the same body once more
RedeliverWith(outcomes) ==
    /\ last # NoWebhook
    /\ last.deliveries = 1
    /\ Len(notifications) < MaxNotifications
    /\ \E now \in Times, store \in outcomes :
        LET h == handle_asaas_webhook(last.req, now, store)
        IN  /\ invoices' = h.invoices
            /\ notifications' = h.notifications
            /\ last' = [req |-> last.req, resp |-> h.resp, deliveries |-> 2,
                         now |-> now,
                         pre_invoices |-> invoices,
                         pre_notifications |-> notifications]
    /\ UNCHANGED <<lots, client_lots, payments, saleLocals, plan, beside>>

\* a delivery against a store whose calls all return
Deliver == DeliverWith(SoundStores)

Redeliver == RedeliverWith(SoundStores)

\* a delivery against a store whose notification-path calls may raise
DeliverFaulty == DeliverWith(StoreOutcomes)

RedeliverFaulty == RedeliverWith(StoreOutcomes)

\* the gateway has its response; the next event may be any
Acknowledge ==
    /\ last # NoWebhook
    /\ last' = NoWebhook
    /\ UNCHANGED <<lots, client_lots, invoices, payments, notifications, saleLocals,
                   plan, beside>>

\* the store after two sales: client c3 (no gateway customer, so no invoices)
\* bought lot l1, client c2 bought lot l2 in one installment of 250
InitWebhook ==
    /\ lots = [l \in LotIds |-> "sold"]
    /\ client_lots = <<ClientLotRow([client_id |-> "c3", lot_id |-> "l1",
                                     total_value |-> 300,
                                     total_installments |-> 1]),
                       ClientLotRow([client_id |-> "c2", lot_id |-> "l2",
                                     total_value |-> 250,
                                     total_installments |-> 1])>>
    /\ invoices = <<InvoiceRow(2, 1, [installment_value |-> 250,
                                      first_due_date |-> <<2024, 1, 31>>],
                               Payment(2, 1, 1))>>
    /\ payments = {Payment(2, 1, 1).id}
    /\ notifications = <<>>
    /\ pc = [p \in Procs |-> "done"]
    /\ req = [p \in Procs |-> NoRequest]
    /\ cust = [p \in Procs |-> None]
    /\ cl = [p \in Procs |-> 0]
    /\ idx = [p \in Procs |-> 0]
    /\ attempt = [p \in Procs |-> 1]
    /\ pay = [p \in Procs |-> Payment(0, 0, 0)]
    /\ result = [p \in Procs |-> None]
    /\ gwCalled = [p \in Procs |-> {}]
    /\ gwFailed = [p \in Procs |-> {}]
    /\ insFailed = [p \in Procs |-> {}]
    /\ last = NoWebhook
    /\ plan = NoPlan
    /\ hooks = NoHooks
    /\ check = NoCheck
    /\ signup = NoSignup

NextWebhook == Deliver \/ Redeliver \/ Acknowledge

\* webhook deliveries, one at a time, against the store
SpecWebhook == InitWebhook /\ [][NextWebhook]_vars

NextWebhookFaulty == DeliverFaulty \/ RedeliverFaulty \/ Acknowledge

\* webhook deliveries against a store whose notification-path calls may raise
SpecWebhookFaulty == InitWebhook /\ [][NextWebhookFaulty]_vars

\* values of the asaas-access-token header; None when the header is missing
Tokens == {None, "tok_a", "tok_b"}

\* the bodies of the requests posted with a token
TokenBodies ==
    {r \in WebhookRequests :
        r.payment.invoiceUrl = None /\ r.payment.bankSlipUrl \in {None, "slip_1"}}

\* the request with body r and header asaas-access-token: token (line 17)
WithToken(r, token) == [event |-> r.event, payment |-> r.payment, token |-> token]

\* a delivery with a token; beside it, what the handler would have done with
\* the same body on the same store under another token is recorded
DeliverWithToken ==
    /\ last = NoWebhook
    /\ Len(notifications) < MaxNotifications
    /\ \E r \in TokenBodies, now \in Times, token \in Tokens, other \in Tokens,
          store \in SoundStores :
        LET h == handle_asaas_webhook(WithToken(r, token), now, store)
        IN  /\ token # other
            /\ invoices' = h.invoices
            /\ notifications' = h.notifications
            /\ last' = [req |-> WithToken(r, token), resp |-> h.resp,
                         deliveries |-> 1, now |-> now,
                         pre_invoices |-> invoices,
                         pre_notifications |-> notifications,
                         other_token |-> other,
                         other_outcome |->
                            handle_asaas_webhook(WithToken(r, other), now, store)]
    /\ UNCHANGED <<lots, client_lots, payments, saleLocals, plan, beside>>

NextWebhookToken == DeliverWithToken \/ Acknowledge

\* webhook deliveries that carry an asaas-access-token header
SpecWebhookToken == InitWebhook /\ [][NextWebhookToken]_vars

----------------------------------------------------------------------------
(* handle_asaas_webhook, two executions at once: one step per store call *)

Handlers == {"h1", "h2"}

\* the bodies of two events about the one stored payment
RaceWebhookRequests ==
    [event : {"PAYMENT_RECEIVED", "PAYMENT_OVERDUE", "PAYMENT_RESTORED",
              "PAYMENT_CREATED"},
     payment : [id : {<<2, 1, 1>>},
                paymentDate : {None, "D1"},
                bankSlipUrl : {None, "slip_1"},
                invoiceUrl : {None, "url_1"}]]

HookIdle == [pc |-> "idle"]

\* the handler has its response
HookDone(h, r, now, resp) ==
    hooks' = [hooks EXCEPT !.run[h] =
                 [pc |-> "done", req |-> r, now |-> now, found |-> 0, resp |-> resp]]

\* lines 22-83: parse the body, read the invoice, map the event and build
\* update_data, reading the clock for a paid event
HookRead(h) ==
    /\ hooks.racing
    /\ hooks.run[h].pc = "idle"
    /\ \E r \in RaceWebhookRequests, now \in Times, single \in SingleOutcomes :
        LET payment == r.payment
            n == FindInvoice(payment.id)
            new_status == status_mapping(r.event)
        IN  IF ~Truthy(r.event) \/ EmptyDict(payment)
              THEN HookDone(h, r, now,
                       Response("400", "Missing event or payment data", None, 0, None))
            ELSE IF payment.id = NoPayment
              THEN HookDone(h, r, now, Response("ignored", "No payment ID", None, 0, None))
            ELSE IF n = 0
              THEN HookDone(h, r, now,
                       IF single = "raises"
                         THEN Response("500", "Internal Server Error", None, 0, None)
                         ELSE Response("ignored", "Invoice not found", None, 0, None))
            ELSE IF new_status = None
              THEN HookDone(h, r, now,
                       Response("ignored", "Unhandled event", r.event, 0, None))
            ELSE hooks' = [hooks EXCEPT !.run[h] =
                              [pc |-> "update", req |-> r, now |-> now, found |-> n,
                               row |-> invoices[n], new_status |-> new_status]]
    /\ UNCHANGED <<lots, client_lots, invoices, payments, notifications, saleLocals,
                   last, plan, check, signup>>

\* an update that writes back the whole row as the handler read it
HookUpdate_WholeRow(h) ==
    LET me == hooks.run[h]
    IN  /\ hooks.racing
        /\ me.pc = "update"
        /\ invoices' = [invoices EXCEPT ![me.found] =
                           UpdatedInvoice(me.row, me.new_status, me.req.payment, me.now)]
        /\ hooks' = [hooks EXCEPT !.run[h] =
                        IF me.new_status = "overdue"
                          THEN [me EXCEPT !.pc = "notify"]
                          ELSE [pc |-> "done", req |-> me.req, now |-> me.now,
                                found |-> me.found, row |-> me.row,
                                resp |-> Response("processed", None, me.req.event,
                                                  me.found, me.new_status)]]
        /\ UNCHANGED <<lots, client_lots, payments, notifications, saleLocals,
                       last, plan, check, signup>>

\* line 85: update(update_data).eq("id", invoice.data["id"]): the columns of
\* update_data are written on the row as it is now, the others stay
HookUpdate(h) ==
    LET me == hooks.run[h]
    IN  /\ hooks.racing
        /\ me.pc = "update"
        /\ invoices' = [invoices EXCEPT ![me.found] =
                           UpdatedInvoice(@, me.new_status, me.req.payment, me.now)]
        /\ hooks' = [hooks EXCEPT !.run[h] =
                        IF me.new_status = "overdue"
                          THEN [me EXCEPT !.pc = "notify"]
                          ELSE [pc |-> "done", req |-> me.req, now |-> me.now,
                                found |-> me.found, row |-> me.row,
                                resp |-> Response("processed", None, me.req.event,
                                                  me.found, me.new_status)]]
        /\ UNCHANGED <<lots, client_lots, payments, notifications, saleLocals,
                       last, plan, check, signup>>

\* lines 87-111: the notification for the invoice as read at line 45, then
\* the response
HookNotify(h) ==
    LET me == hooks.run[h]
    IN  /\ hooks.racing
        /\ me.pc = "notify"
        /\ notifications' = notifications \o OverdueNotifications(me.row, me.new_status)
        /\ hooks' = [hooks EXCEPT !.run[h] =
                        [pc |-> "done", req |-> me.req, now |-> me.now,
                         found |-> me.found, row |-> me.row,
                         resp |-> Response("processed", None, me.req.event,
                                           me.found, me.new_status)]]
        /\ UNCHANGED <<lots, client_lots, invoices, payments, saleLocals,
                       last, plan, check, signup>>

\* the invoice as issued, and as an earlier PAYMENT_RECEIVED left it
StoredInvoices ==
    LET issued == InvoiceRow(2, 1, [installment_value |-> 250,
                                    first_due_date |-> <<2024, 1, 31>>],
                             Payment(2, 1, 1))
    IN  {<<issued>>,
         <<UpdatedInvoice(issued, "paid",
                          [id |-> <<2, 1, 1>>, paymentDate |-> "D0",
                           bankSlipUrl |-> None, invoiceUrl |-> "url_r"], "T0")>>}

\* the store of InitWebhook, with the invoice in one of its stored forms, when
\* the gateway posts two events about its payment at once
InitWebhookRace ==
    /\ lots = [l \in LotIds |-> "sold"]
    /\ client_lots = <<ClientLotRow([client_id |-> "c3", lot_id |-> "l1",
                                     total_value |-> 300,
                                     total_installments |-> 1]),
                       ClientLotRow([client_id |-> "c2", lot_id |-> "l2",
                                     total_value |-> 250,
                                     total_installments |-> 1])>>
    /\ invoices \in StoredInvoices
    /\ payments = {Payment(2, 1, 1).id}
    /\ notifications = <<>>
    /\ pc = [p \in Procs |-> "done"]
    /\ req = [p \in Procs |-> NoRequest]
    /\ cust = [p \in Procs |-> None]
    /\ cl = [p \in Procs |-> 0]
    /\ idx = [p \in Procs |-> 0]
    /\ attempt = [p \in Procs |-> 1]
    /\ pay = [p \in Procs |-> Payment(0, 0, 0)]
    /\ result = [p \in Procs |-> None]
    /\ gwCalled = [p \in Procs |-> {}]
    /\ gwFailed = [p \in Procs |-> {}]
    /\ insFailed = [p \in Procs |-> {}]
    /\ last = NoWebhook
    /\ plan = NoPlan
    /\ hooks = [racing |-> TRUE, run |-> [h \in Handlers |-> HookIdle],
                pre_invoices |-> invoices]
    /\ check = NoCheck
    /\ signup = NoSignup

NextWebhookRace == \E h \in Handlers : HookRead(h) \/ HookUpdate(h) \/ HookNotify(h)

\* two executions of handle_asaas_webhook interleaved between their store calls
SpecWebhookRace == InitWebhookRace /\ [][NextWebhookRace]_vars

----------------------------------------------------------------------------
(* validate_cpf: strings are sequences of one-character strings *)

DigitChars == {Digit(n) : n \in 0..9}

\* int(d) of a digit character
DigitValue(c) == CHOOSE n \in 0..9 : Digit(n) = c

\* str(n) of a number below 100, as in the f-string of line 28
IntChars(n) == IF n < 10 THEN <<Digit(n)>> ELSE <<Digit(n \div 10), Digit(n % 10)>>

IsDigitChar(c) == c \in DigitChars

\* line 9: re.sub(r'[^0-9]', '', cpf)
StripNonDigits(cpf) == SelectSeq(cpf, IsDigitChar)

RECURSIVE WeightedSum(_, _)
\* sum(int(d) * w for d, w in zip(cpf_slice, weights)): zip stops at the shorter
WeightedSum(cpf_slice, weights) ==
    IF cpf_slice = <<>> \/ weights = <<>> THEN 0
    ELSE DigitValue(Head(cpf_slice)) * Head(weights)
           + WeightedSum(Tail(cpf_slice), Tail(weights))

\* a check digit without the rule for remainders below 2
calc_digit_NoZeroRule(cpf_slice, weights) ==
    LET remainder == WeightedSum(cpf_slice, weights) % 11
    IN  11 - remainder

\* lines 17-20
calc_digit(cpf_slice, weights) ==
    LET remainder == WeightedSum(cpf_slice, weights) % 11
    IN  IF remainder < 2 THEN 0 ELSE 11 - remainder

first_weights == <<10, 9, 8, 7, 6, 5, 4, 3, 2>>

second_weights == <<11, 10, 9, 8, 7, 6, 5, 4, 3, 2>>

\* lines 7-28
validate_cpf(cpf0) ==
    LET cpf == StripNonDigits(cpf0)
    IN  IF Len(cpf) # 11 THEN FALSE
        ELSE IF cpf = [i \in 1..11 |-> cpf[1]] THEN FALSE
        ELSE LET first_digit == calc_digit(SubSeq(cpf, 1, 9), first_weights)
                 second_digit == calc_digit(SubSeq(cpf, 1, 10), second_weights)
             IN  SubSeq(cpf, 10, 11) = IntChars(first_digit) \o IntChars(second_digit)

\* the first nine digits of the modelled numbers: the number of the tests,
\* one with both remainders 1, one of equal digits, one with first remainder 1
CpfPrefixes ==
    {<<"5", "2", "9", "9", "8", "2", "2", "4", "7">>,
     <<"0", "0", "0", "0", "0", "0", "2", "8", "1">>,
     <<"1", "1", "1", "1", "1", "1", "1", "1", "1">>,
     <<"1", "2", "3", "4", "5", "6", "7", "8", "9">>}

\* the spelling 000.000.000-00 of eleven digits
Formatted(d) ==
    SubSeq(d, 1, 3) \o <<".">> \o SubSeq(d, 4, 6) \o <<".">> \o SubSeq(d, 7, 9)
        \o <<"-">> \o SubSeq(d, 10, 11)

\* every prefix with every pair of check digits, plain and formatted, and
\* strings of other lengths
CpfInputs ==
    LET eleven == {p \o <<a, b>> : p \in CpfPrefixes, a \in DigitChars, b \in DigitChars}
    IN  eleven \cup {Formatted(d) : d \in eleven}
          \cup {<<>>, <<"a", "b", "c">>,
                <<"1", "2", "3", "4", "5", "6", "7", "8", "9">>,
                <<"1", "2", "3", "4", "5", "6", "7", "8", "9", "0", "1", "2">>,
                <<"5", "2", "9", "9", "8", "2", "2", "4", "7", "2", "5", "x">>}

\* a call of validate_cpf, and a call on the digits of the same string
ValidateCpf ==
    /\ check = NoCheck
    /\ \E cpf \in CpfInputs :
        check' = [called |-> TRUE, cpf |-> cpf,
                  verdict |-> validate_cpf(cpf),
                  plain_verdict |-> validate_cpf(StripNonDigits(cpf))]
    /\ UNCHANGED <<lots, client_lots, invoices, payments, notifications,
                   saleLocals, last, plan, hooks, signup>>

NextCpf == ValidateCpf

\* calls of validate_cpf
SpecCpf == Init /\ [][NextCpf]_vars

----------------------------------------------------------------------------
(* create_client: one action per call of the auth service, the gateway or   *)
(* the store.  user, profile and client say whether the record this call    *)
(* created exists; customers counts the customers created at the gateway.   *)

\* the ClientCreate bodies, over small sets
ClientCreates ==
    [email : {"ana@example.com", "bia@example.com"},
     full_name : {"Ana", "Bia"},
     address : {None, "street"}]

\* an outcome of a store or auth call: it returns data, returns none, or raises
CallOutcomes == {"data", "no_data", "raises"}

SignupOthers ==
    <<lots, client_lots, invoices, payments, notifications, saleLocals, last, plan,
      hooks, check>>

\* the handler leaves with an HTTP error
SignupFail(detail) ==
    signup' = [signup EXCEPT !.pc = "done", !.result = detail]

\* lines 219-236: db.auth.admin.create_user; an exception is caught at 306
CreateUser ==
    /\ signup.pc = "idle"
    /\ \E r \in ClientCreates, out \in CallOutcomes :
        signup' =
            CASE out = "data" ->
                   [pc |-> "create_customer", req |-> r, user |-> TRUE,
                    profile |-> FALSE, client |-> FALSE, asaas_customer_id |-> None,
                    attempt |-> 1, customers |-> 0, result |-> None]
              [] out = "no_data" ->
                   [pc |-> "done", req |-> r, user |-> FALSE,
                    profile |-> FALSE, client |-> FALSE, asaas_customer_id |-> None,
                    attempt |-> 1, customers |-> 0,
                    result |-> "400 Failed to create user account"]
              [] OTHER ->
                   [pc |-> "done", req |-> r, user |-> FALSE,
                    profile |-> FALSE, client |-> FALSE, asaas_customer_id |-> None,
                    attempt |-> 1, customers |-> 0,
                    result |-> "500 Failed to create client: error"]
    /\ UNCHANGED SignupOthers

\* lines 238-249 over asaas.py 22-41 and 43-71: one attempt of POST customers;
\* after the third failure the except of line 247 sets asaas_customer_id to None
CreateCustomerAttempt ==
    /\ signup.pc = "create_customer"
    /\ \E outcome \in {"ok", "error", "lost"} :
        signup' =
            IF outcome = "ok"
              THEN [signup EXCEPT !.pc = "insert_profile",
                                  !.asaas_customer_id = "cus_new",
                                  !.customers = @ + 1]
            ELSE IF signup.attempt < MaxAttempts
              THEN [signup EXCEPT !.attempt = @ + 1,
                                  !.customers = IF outcome = "lost" THEN @ + 1 ELSE @]
            ELSE [signup EXCEPT !.pc = "insert_profile",
                                !.asaas_customer_id = None,
                                !.customers = IF outcome = "lost" THEN @ + 1 ELSE @]
    /\ UNCHANGED SignupOthers

\* lines 251-262: insert the profile; without data go on to delete the user
\* (line 263); an exception is caught at line 306
InsertProfile ==
    /\ signup.pc = "insert_profile"
    /\ \E out \in CallOutcomes :
        CASE out = "data" ->
               signup' = [signup EXCEPT !.pc = "insert_client", !.profile = TRUE]
          [] out = "no_data" ->
               signup' = [signup EXCEPT !.pc = "delete_user_of_profile"]
          [] OTHER -> SignupFail("500 Failed to create client: error")
    /\ UNCHANGED SignupOthers

\* lines 263-267: delete the auth user, then 500
DeleteUserOfProfile ==
    /\ signup.pc = "delete_user_of_profile"
    /\ \/ signup' = [signup EXCEPT !.pc = "done", !.user = FALSE,
                                   !.result = "500 Failed to create profile"]
       \/ SignupFail("500 Failed to create client: error")
    /\ UNCHANGED SignupOthers

\* lines 269-279: insert the client; without data go on to the two deletes;
\* an exception is caught at line 306
InsertClient ==
    /\ signup.pc = "insert_client"
    /\ \E out \in CallOutcomes :
        CASE out = "data" ->
               signup' = [signup EXCEPT !.pc = "return", !.client = TRUE]
          [] out = "no_data" ->
               signup' = [signup EXCEPT !.pc = "delete_profile"]
          [] OTHER -> SignupFail("500 Failed to create client: error")
    /\ UNCHANGED SignupOthers

\* line 280: delete the profile
DeleteProfile ==
    /\ signup.pc = "delete_profile"
    /\ \/ signup' = [signup EXCEPT !.pc = "delete_user_of_client", !.profile = FALSE]
       \/ SignupFail("500 Failed to create client: error")
    /\ UNCHANGED SignupOthers

\* lines 281-285: delete the auth user, then 500
DeleteUserOfClient ==
    /\ signup.pc = "delete_user_of_client"
    /\ \/ signup' = [signup EXCEPT !.pc = "done", !.user = FALSE,
                                   !.result = "500 Failed to create client"]
       \/ SignupFail("500 Failed to create client: error")
    /\ UNCHANGED SignupOthers

\* lines 287-302: the 201 response
ReturnClient ==
    /\ signup.pc = "return"
    /\ signup' = [signup EXCEPT !.pc = "done", !.result = "201 Created"]
    /\ UNCHANGED SignupOthers

NextClient ==
    \/ CreateUser
    \/ CreateCustomerAttempt
    \/ InsertProfile
    \/ DeleteUserOfProfile
    \/ InsertClient
    \/ DeleteProfile
    \/ DeleteUserOfClient
    \/ ReturnClient

\* one call of create_client
SpecClient == Init /\ [][NextClient]_vars

----------------------------------------------------------------------------
(* Claims about create_client_lot *)

HasInvoice(c, i) ==
    \E n \in DOMAIN invoices :
        invoices[n].client_lot_id = c /\ invoices[n].installment_number = i

ActiveClientLots(l) ==
    {n \in DOMAIN client_lots :
        client_lots[n].lot_id = l /\ client_lots[n].status = "active"}

IssuanceFailed(p) == gwFailed[p] \cup insFailed[p] # {}

\* C1 (as claimed): when the gateway call of installment k fails, no invoice is
\* persisted for k and issuance continues with k+1..N: every other installment
\* has its gateway call made, and has an invoice when that call succeeded.
C1_IssuanceContinuesAfterGatewayFailure ==
    \A p \in Procs :
        (pc[p] = "done" /\ result[p] = "201 Created" /\ insFailed[p] = {}) =>
            \A k \in gwFailed[p] :
                /\ ~HasInvoice(cl[p], k)
                /\ \A j \in (1..req[p].total_installments) \ {k} :
                      /\ j \in gwCalled[p]
                      /\ j \notin gwFailed[p] => HasInvoice(cl[p], j)

\* C2, state part: after a failure during issuance the request goes on to its
\* 201 response, the client_lots row is active and the lot is sold.
C2_SaleStands ==
    \A p \in Procs :
        IssuanceFailed(p) =>
            /\ pc[p] \in {"return", "done"}
            /\ pc[p] = "done" => result[p] = "201 Created"
            /\ cl[p] \in DOMAIN client_lots
            /\ client_lots[cl[p]].status = "active"
            /\ client_lots[cl[p]].lot_id = req[p].lot_id
            /\ lots[req[p].lot_id] = "sold"

\* C2, step part: no step removes or rewrites an invoice already persisted.
C2_InvoicesKept ==
    /\ Len(invoices') >= Len(invoices)
    /\ \A n \in DOMAIN invoices : invoices'[n] = invoices[n]

\* C2: once the client_lots row is inserted and the lot is sold, a failure
\* during issuance (gateway or invoice insert, at any installment) is not
\* fatal: the request still returns 201 with the row, the row stays active,
\* the lot stays sold and the invoices persisted before the failure are kept.
C2_IssuanceFailureNonFatal == []C2_SaleStands /\ [][C2_InvoicesKept]_vars

\* C2 witness: a request returned 201 after the gateway call of installment 2
\* failed, with the invoice of installment 1 persisted.
C2_Witness ==
    \E p \in Procs :
        /\ pc[p] = "done" /\ result[p] = "201 Created"
        /\ gwFailed[p] = {2}
        /\ HasInvoice(cl[p], 1)
        /\ lots[req[p].lot_id] = "sold"

\* C3 (as claimed): whatever the interleaving of concurrent sale requests for
\* one lot, at most one active client_lots row exists for the lot.
C3_AtMostOneActiveClientLot ==
    \A l \in DOMAIN lots : Cardinality(ActiveClientLots(l)) <= 1

----------------------------------------------------------------------------
(* Claims about handle_asaas_webhook *)

Handled == last # NoWebhook

\* the body of the exchange is well formed: an event name and a payment object
WellFormed == Handled /\ Truthy(last.req.event) /\ ~EmptyDict(last.req.payment)

\* the body's payment id is carried by an invoice the handler found in the store
Matched ==
    /\ WellFormed
    /\ \E n \in DOMAIN last.pre_invoices :
          last.pre_invoices[n].asaas_payment_id = last.req.payment.id

Processed == Handled /\ last.resp.status = "processed"

StoreUntouched ==
    /\ invoices = last.pre_invoices
    /\ notifications = last.pre_notifications

Added == SubSeq(notifications, Len(last.pre_notifications) + 1, Len(notifications))

Side(inv) == <<inv.status, inv.barcode, inv.payment_url>>

\* C4: applying the same payload twice in a row leaves every invoice's status,
\* barcode and payment_url after the second application equal to their values
\* after the first.
C4_WebhookIdempotentOnInvoice ==
    (Handled /\ last.deliveries = 2) =>
        /\ DOMAIN invoices = DOMAIN last.pre_invoices
        /\ \A n \in DOMAIN invoices : Side(invoices[n]) = Side(last.pre_invoices[n])

\* C4 witness: a recognized event carrying a new bank slip URL was applied
\* twice to the invoice, which is paid and carries that URL.
C4_Witness ==
    /\ Processed /\ last.deliveries = 2
    /\ last.req.payment.bankSlipUrl = "slip_1"
    /\ last.resp.new_status = "paid"
    /\ invoices[last.resp.invoice_id].barcode = "slip_1"
    /\ invoices[last.resp.invoice_id].status = "paid"

\* C5 (as claimed): the second application of the same event inserts no
\* notification.
C5_RedeliveryAddsNoNotification ==
    (Handled /\ last.deliveries = 2) => notifications = last.pre_notifications

TransitionsListed ==
    {<<"pending", "paid">>, <<"pending", "overdue">>, <<"pending", "cancelled">>,
     <<"overdue", "paid">>, <<"overdue", "cancelled">>, <<"paid", "pending">>,
     <<"paid", "cancelled">>}

\* C6 (as claimed): every change of an invoice's status by the handler is one
\* of the listed transitions or a self-transition.
C6_OnlyListedTransitions ==
    Handled =>
        \A n \in DOMAIN last.pre_invoices :
            \/ invoices[n].status = last.pre_invoices[n].status
            \/ <<last.pre_invoices[n].status, invoices[n].status>> \in TransitionsListed

\* the event table of the interface section, as the set of its twelve entries
EventTable ==
    {<<"PAYMENT_RECEIVED", "paid">>, <<"PAYMENT_CONFIRMED", "paid">>,
     <<"PAYMENT_OVERDUE", "overdue">>, <<"PAYMENT_DELETED", "cancelled">>,
     <<"PAYMENT_RESTORED", "pending">>, <<"PAYMENT_REFUNDED", "cancelled">>,
     <<"PAYMENT_RECEIVED_IN_CASH_UNDONE", "pending">>,
     <<"PAYMENT_CHARGEBACK_REQUESTED", "overdue">>,
     <<"PAYMENT_CHARGEBACK_DISPUTE", "overdue">>,
     <<"PAYMENT_AWAITING_CHARGEBACK_REVERSAL", "overdue">>,
     <<"PAYMENT_DUNNING_RECEIVED", "paid">>,
     <<"PAYMENT_DUNNING_REQUESTED", "overdue">>}

\* C6 (amended): every change of an invoice's status by the handler is made on
\* the invoice the event names and sets the status the event maps to in the
\* table, whatever status the invoice had.
C6_StatusFollowsEvent ==
    Handled =>
        \A n \in DOMAIN last.pre_invoices :
            invoices[n].status # last.pre_invoices[n].status =>
                /\ Processed
                /\ last.resp.invoice_id = n
                /\ invoices[n].asaas_payment_id = last.req.payment.id
                /\ <<last.req.event, invoices[n].status>> \in EventTable

\* C6 witness: an event moved a cancelled invoice to paid.
C6_Witness ==
    /\ Processed
    /\ last.pre_invoices[last.resp.invoice_id].status = "cancelled"
    /\ invoices[last.resp.invoice_id].status = "paid"

\* C7: for a well-formed body naming a stored invoice, the handler gives each
\* of the twelve event names of the table the table's status, in its response
\* and on the invoice, and gives every other event name no status.
C7_MappingIsTheTable ==
    Matched =>
        IF \E e \in EventTable : e[1] = last.req.event
          THEN /\ Processed
               /\ <<last.req.event, last.resp.new_status>> \in EventTable
               /\ <<last.req.event, invoices[last.resp.invoice_id].status>> \in EventTable
          ELSE /\ last.resp.status = "ignored"
               /\ last.resp.new_status = None

\* C7 witness: PAYMENT_DUNNING_RECEIVED was processed on the stored invoice.
C7_Witness ==
    /\ Processed
    /\ last.req.event = "PAYMENT_DUNNING_RECEIVED"
    /\ last.resp.new_status = "paid"

\* the lookup of lines 45-47 found no invoice for the body's payment id and
\* raised (C9)
LookupRaised ==
    /\ WellFormed /\ last.req.payment.id # NoPayment /\ ~Matched
    /\ last.resp.status = "500"

C9_UnmatchedPaymentIgnored ==
    (WellFormed /\ last.req.payment.id # NoPayment /\ ~Matched) =>
        /\ last.resp.status = "ignored"
        /\ last.resp.reason = "Invoice not found"
        /\ StoreUntouched

\* the notification the owning client is due for an invoice
NotificationFor(inv) ==
    [user_id |-> Clients[client_lots[inv.client_lot_id].client_id].profile_id,
     type |-> "payment_overdue", amount |-> inv.amount, is_read |-> FALSE]

\* C10 (as claimed): a delivery that moves an invoice into overdue inserts
\* exactly one notification, for the profile of the client owning the invoice's
\* client_lots row and with the invoice's amount; a delivery that moves no
\* invoice into overdue inserts none.
C10_OneNotificationPerOverdueTransition ==
    Handled =>
        IF \E n \in DOMAIN last.pre_invoices :
              last.pre_invoices[n].status # "overdue" /\ invoices[n].status = "overdue"
          THEN \E n \in DOMAIN last.pre_invoices :
                  /\ last.pre_invoices[n].status # "overdue"
                  /\ invoices[n].status = "overdue"
                  /\ Added = <<NotificationFor(invoices[n])>>
          ELSE Added = <<>>

\* C11 (as claimed): when an overdue-mapped event is handled for a stored
\* invoice, the invoice is overdue afterwards and the response is "processed",
\* also when the client_lots lookup or the notifications insert fails.
C11_NotificationBestEffort ==
    (Matched /\ <<last.req.event, "overdue">> \in EventTable) =>
        /\ \E n \in DOMAIN invoices :
              /\ invoices[n].asaas_payment_id = last.req.payment.id
              /\ invoices[n].status = "overdue"
        /\ last.resp.status = "processed"

\* C12: an event that maps to paid, applied to a stored invoice, sets the
\* invoice to paid with paid_at the event's payment date when it carries one and
\* the processing time otherwise, and the response is "processed" with
\* new_status paid.
C12_PaidAtFromEventOrClock ==
    (Matched /\ <<last.req.event, "paid">> \in EventTable) =>
        /\ Processed
        /\ last.resp.new_status = "paid"
        /\ last.resp.invoice_id \in DOMAIN invoices
        /\ LET inv == invoices[last.resp.invoice_id]
           IN  /\ inv.asaas_payment_id = last.req.payment.id
               /\ inv.status = "paid"
               /\ inv.paid_at = IF last.req.payment.paymentDate \in {None, ""}
                                  THEN last.now
                                  ELSE last.req.payment.paymentDate

\* C12 witness: a paid event without a payment date was applied at T2 to an
\* invoice that was paid on the date D1 before, and paid_at is now T2.
C12_Witness ==
    /\ Processed
    /\ last.resp.new_status = "paid"
    /\ last.req.payment.paymentDate = None
    /\ last.now = "T2"
    /\ last.pre_invoices[last.resp.invoice_id].paid_at = "D1"
    /\ invoices[last.resp.invoice_id].paid_at = "T2"

\* C13 (as claimed): an event whose mapped status is the status the invoice
\* already has leaves the invoice's status and paid_at as they were and inserts
\* no notification.
C13_SelfTransitionNoEffect ==
    (/\ Matched
     /\ \E n \in DOMAIN last.pre_invoices :
           /\ last.pre_invoices[n].asaas_payment_id = last.req.payment.id
           /\ <<last.req.event, last.pre_invoices[n].status>> \in EventTable) =>
        /\ DOMAIN invoices = DOMAIN last.pre_invoices
        /\ \A n \in DOMAIN invoices :
              /\ invoices[n].status = last.pre_invoices[n].status
              /\ invoices[n].paid_at = last.pre_invoices[n].paid_at
        /\ notifications = last.pre_notifications

\* C14: a recognized event applied to a stored invoice overwrites barcode with
\* the event's bankSlipUrl exactly when that value is non-empty, and payment_url
\* with its invoiceUrl exactly when that value is non-empty, each independently
\* of the other; a field whose event value is missing or empty keeps its value.
C14_UrlsOverwrittenWhenNonEmpty ==
    (Matched /\ last.req.event \in RecognizedEvents) =>
        /\ DOMAIN invoices = DOMAIN last.pre_invoices
        /\ \A n \in DOMAIN invoices :
              invoices[n].asaas_payment_id = last.req.payment.id =>
                  /\ invoices[n].barcode =
                        IF last.req.payment.bankSlipUrl \in {None, ""}
                          THEN last.pre_invoices[n].barcode
                          ELSE last.req.payment.bankSlipUrl
                  /\ invoices[n].payment_url =
                        IF last.req.payment.invoiceUrl \in {None, ""}
                          THEN last.pre_invoices[n].payment_url
                          ELSE last.req.payment.invoiceUrl

\* C14 witness: an event with a new bank slip URL and an empty invoice URL was
\* applied to an invoice whose stored URLs were both set by an earlier event:
\* the barcode is the new one, the payment_url the stored one.
C14_Witness ==
    /\ Processed
    /\ last.req.payment.bankSlipUrl = "slip_1"
    /\ last.req.payment.invoiceUrl = ""
    /\ last.pre_invoices[last.resp.invoice_id].barcode = "slip_0"
    /\ last.pre_invoices[last.resp.invoice_id].payment_url = "url_1"
    /\ invoices[last.resp.invoice_id].barcode = "slip_1"
    /\ invoices[last.resp.invoice_id].payment_url = "url_1"

C19_ActiveClientLotImpliesSold ==
    \A n \in DOMAIN client_lots :
        client_lots[n].status = "active" => lots[client_lots[n].lot_id] = "sold"

\* C20 (as claimed): the gateway holds at most one payment for an installment
\* of a sale, also when an attempt that timed out had been accepted and the
\* retry sent the POST again.
C20_OnePaymentPerInstallment ==
    \A a \in payments, b \in payments :
        (a[1] = b[1] /\ a[2] = b[2]) => a = b

\* C25: a recognized event mapped to pending, overdue or cancelled leaves the
\* paid_at of every invoice exactly as stored, neither setting nor clearing
\* it; an invoice restored from paid to pending keeps its earlier paid_at.
C25_PaidAtOnlyByPaidEvents ==
    (/\ Matched
     /\ \E s \in {"pending", "overdue", "cancelled"} :
           <<last.req.event, s>> \in EventTable) =>
        /\ DOMAIN invoices = DOMAIN last.pre_invoices
        /\ \A n \in DOMAIN invoices :
              invoices[n].paid_at = last.pre_invoices[n].paid_at

\* C25 witness: PAYMENT_RESTORED was applied to an invoice paid on D1: it is
\* pending and its paid_at is still D1.
C25_Witness ==
    /\ Processed
    /\ last.req.event = "PAYMENT_RESTORED"
    /\ last.pre_invoices[last.resp.invoice_id].status = "paid"
    /\ last.pre_invoices[last.resp.invoice_id].paid_at = "D1"
    /\ invoices[last.resp.invoice_id].status = "pending"
    /\ invoices[last.resp.invoice_id].paid_at = "D1"

----------------------------------------------------------------------------
(* Claims about the schedule of installments *)

MonthLengths == <<31, 28, 31, 30, 31, 30, 31, 31, 30, 31, 30, 31>>

LastDay(y, m) ==
    IF m = 2 /\ ((y % 4 = 0 /\ y % 100 # 0) \/ y % 400 = 0)
      THEN 29 ELSE MonthLengths[m]

\* the date i calendar months after first: months are counted from year 0, the
\* day of first is kept unless the month reached is shorter
ShiftedByMonths(first, i) ==
    LET k == 12 * first[1] + (first[2] - 1) + i
        y == k \div 12
        m == (k % 12) + 1
    IN  <<y, m, IF first[3] <= LastDay(y, m) THEN first[3] ELSE LastDay(y, m)>>

Before(a, b) ==
    \/ a[1] < b[1]
    \/ a[1] = b[1] /\ a[2] < b[2]
    \/ a[1] = b[1] /\ a[2] = b[2] /\ a[3] < b[3]

\* rows is the schedule of count installments from first: entry i carries
\* number i and the date i - 1 months after first, and the dates increase
IsSchedule(rows, number(_), due_date(_), count, first) ==
    /\ Len(rows) = count
    /\ \A i \in 1..count :
          /\ number(rows[i]) = i
          /\ due_date(rows[i]) = isoformat(ShiftedByMonths(first, i - 1))
          /\ i < count =>
                /\ Before(ShiftedByMonths(first, i - 1), ShiftedByMonths(first, i))
                /\ due_date(rows[i]) # due_date(rows[i + 1])

PlanNumber(row) == row.number

PlanDueDate(row) == row.due_date

InvoiceNumber(row) == row.installment_number

InvoiceDueDate(row) == row.due_date

\* C16: for a positive count, calculate_installments returns exactly count
\* entries, entry i (0-based) with number i+1 and due date first_due shifted by
\* i calendar months from first_due itself (day kept, cut to the month's last
\* day), strictly increasing; and the invoices of a sale whose issuance loop
\* ran through are that schedule, every invoice inserted on the way carrying
\* the due date of its installment number.
C16_ScheduleOfCalendarMonths ==
    /\ (plan.called /\ plan.num_installments >= 1) =>
          /\ plan.result.raised = None
          /\ IsSchedule(plan.result.returned, PlanNumber, PlanDueDate,
                        plan.num_installments, plan.first_due_date)
    /\ \A n \in DOMAIN invoices :
          /\ invoices[n].installment_number = n
          /\ invoices[n].due_date =
                isoformat(ShiftedByMonths(req["r1"].first_due_date, n - 1))
    /\ (/\ pc["r1"] = "done"
        /\ result["r1"] = "201 Created"
        /\ cust["r1"] # None
        /\ ~IssuanceFailed("r1")) =>
          IsSchedule(invoices, InvoiceNumber, InvoiceDueDate,
                     req["r1"].total_installments, req["r1"].first_due_date)

\* C16 witness: the helper was called for MaxCount installments from 31 January
\* 2024: the second entry falls on 29 February, the third on 31 March.
C16_Witness ==
    /\ plan.called
    /\ plan.num_installments = MaxCount
    /\ plan.first_due_date = <<2024, 1, 31>>
    /\ Len(plan.result.returned) = MaxCount
    /\ plan.result.returned[2].due_date = "2024-02-29"
    /\ plan.result.returned[3].due_date = "2024-03-31"
    /\ plan.result.returned[3].number = 3

RECURSIVE SumAmounts(_)
SumAmounts(rows) ==
    IF rows = <<>> THEN 0 ELSE rows[1].amount + SumAmounts(Tail(rows))

\* C17 (as claimed): every invoice issued for a sale has amount total_value
\* divided by the installment count.
C17_AmountIsTotalOverCount ==
    \A n \in DOMAIN invoices :
        invoices[n].amount * req["r1"].total_installments = req["r1"].total_value

\* C17: every invoice issued for a sale has the amount installment_value of the
\* request's payment plan, whatever the sale's total_value, and the amounts of
\* a fully issued sale sum to installment_value * count.
C17_AmountIsInstallmentValue ==
    /\ \A n \in DOMAIN invoices :
          invoices[n].amount = req["r1"].installment_value
    /\ (/\ pc["r1"] = "done"
        /\ result["r1"] = "201 Created"
        /\ cust["r1"] # None
        /\ ~IssuanceFailed("r1")) =>
          SumAmounts(invoices) =
              req["r1"].installment_value * req["r1"].total_installments

\* C17 witness: a sale of total value 300 in two installments of 100 was fully
\* issued: two invoices of 100.
C17_Witness ==
    /\ pc["r1"] = "done"
    /\ result["r1"] = "201 Created"
    /\ req["r1"].total_value = 300
    /\ req["r1"].total_installments = 2
    /\ req["r1"].installment_value = 100
    /\ Len(invoices) = 2
    /\ SumAmounts(invoices) = 200

\* C18 (as claimed): calculate_installments called with a non-positive count or
\* a non-positive total raises an error and returns no schedule.
C18_InvalidInputRejected ==
    (plan.called /\ (plan.num_installments <= 0 \/ plan.total <= 0)) =>
        plan.result.raised # None

----------------------------------------------------------------------------
(* Claims about concurrent webhook handlers *)

HooksDone == hooks.racing /\ \A h \in Handlers : hooks.run[h].pc = "done"

\* the invoice after the event of handler h was applied to inv on its own
AppliedAlone(inv, h) ==
    LET me == hooks.run[h]
    IN  IF me.resp.status = "processed"
          THEN UpdatedInvoice(inv, me.resp.new_status, me.req.payment, me.now)
          ELSE inv

WebhookFields(inv) == <<inv.status, inv.paid_at, inv.barcode, inv.payment_url>>

\* C21: after two concurrent executions on the same payment id, in whatever
\* order their reads, updates and notification inserts interleaved, the
\* invoice's status, paid_at, barcode and payment_url are what applying the two
\* events one after the other, in one of the two orders, gives.
C21_InterleavingsAreSerial ==
    HooksDone =>
        /\ DOMAIN invoices = DOMAIN hooks.pre_invoices
        /\ \A n \in DOMAIN invoices :
              WebhookFields(invoices[n]) \in
                  {WebhookFields(AppliedAlone(AppliedAlone(hooks.pre_invoices[n], "h1"), "h2")),
                   WebhookFields(AppliedAlone(AppliedAlone(hooks.pre_invoices[n], "h2"), "h1"))}

\* C21 witness: both handlers read the invoice as pending, so before either
\* updated it; one applied a paid event with a new bank slip URL, the other an overdue
\* event without one, and the invoice ended overdue with the new URL.
C21_Witness ==
    /\ HooksDone
    /\ hooks.run["h1"].resp.status = "processed"
    /\ hooks.run["h2"].resp.status = "processed"
    /\ hooks.run["h1"].row.status = "pending"
    /\ hooks.run["h2"].row.status = "pending"
    /\ hooks.run["h1"].resp.new_status = "paid"
    /\ hooks.run["h1"].req.payment.bankSlipUrl = "slip_1"
    /\ hooks.run["h2"].resp.new_status = "overdue"
    /\ hooks.run["h2"].req.payment.bankSlipUrl = None
    /\ Len(notifications) = 1
    /\ invoices[1].status = "overdue"
    /\ invoices[1].barcode = "slip_1"

----------------------------------------------------------------------------
(* Further claims about create_client_lot *)

\* C22, state part: the attempt about to be made is the first, second or
\* third of its request and no earlier attempt of that request succeeded (the
\* installment has no invoice and is not given up); every payment at the
\* gateway comes from one of three attempts; a request given up leaves the
\* sale on its way to the 201 response.
C22_AttemptsState ==
    /\ attempt["r1"] \in 1..3
    /\ \A id \in payments : id[3] \in 1..3
    /\ pc["r1"] = "create_payment" =>
          /\ ~HasInvoice(cl["r1"], idx["r1"] + 1)
          /\ idx["r1"] + 1 \notin gwFailed["r1"]
          /\ \A id \in payments :
                (id[1] = cl["r1"] /\ id[2] = idx["r1"] + 1) => id[3] < attempt["r1"]
    /\ gwFailed["r1"] # {} =>
          /\ pc["r1"] \in {"return", "done"}
          /\ pc["r1"] = "done" => result["r1"] = "201 Created"

\* C22, step part: an attempt that succeeds hands its payment to the invoice
\* insert; one that fails is followed by the next attempt of the same request
\* when it was the first or second, and by the caller's except clause when it
\* was the third.
C22_AttemptsStep ==
    pc["r1"] = "create_payment" =>
        \/ /\ pc'["r1"] = "insert_invoice"
           /\ pay'["r1"].id = <<cl["r1"], idx["r1"] + 1, attempt["r1"]>>
           /\ gwFailed' = gwFailed
        \/ /\ attempt["r1"] < 3
           /\ pc'["r1"] = "create_payment"
           /\ attempt'["r1"] = attempt["r1"] + 1
           /\ idx' = idx
           /\ gwFailed' = gwFailed
        \/ /\ attempt["r1"] = 3
           /\ pc'["r1"] = "return"
           /\ gwFailed'["r1"] = gwFailed["r1"] \cup {idx["r1"] + 1}
           /\ invoices' = invoices

\* C22: a gateway request is attempted at most 3 times: no attempt follows a
\* successful one, and after the third failed attempt the request is given up
\* and the failure reaches issuance, which goes on to the 201 response.
C22_AtMostThreeAttempts == []C22_AttemptsState /\ [][C22_AttemptsStep]_vars

\* C22 witness: the sale returned 201 after the request for installment 1 was
\* given up; its third attempt had reached the gateway.
C22_Witness ==
    /\ pc["r1"] = "done"
    /\ result["r1"] = "201 Created"
    /\ gwFailed["r1"] = {1}
    /\ <<cl["r1"], 1, 3>> \in payments
    /\ invoices = <<>>

\* the positions in invoices of the rows of client_lots row c
InvoicesOf(c) == {n \in DOMAIN invoices : invoices[n].client_lot_id = c}

\* C24, state part: the invoices of a sale are persisted in increasing order of
\* installment number; every installment before one whose gateway request was
\* sent had its own request sent and its invoice inserted; and while a request
\* is about to be sent, the payment the previous call returned is in an invoice.
C24_SequentialState ==
    /\ \A m \in DOMAIN invoices, n \in DOMAIN invoices :
          (m < n /\ invoices[m].client_lot_id = invoices[n].client_lot_id) =>
              invoices[m].installment_number < invoices[n].installment_number
    /\ \A i \in gwCalled["r1"] :
          \A j \in 1..(i - 1) : j \in gwCalled["r1"] /\ HasInvoice(cl["r1"], j)
    /\ (pc["r1"] = "create_payment" /\ idx["r1"] > 0) =>
          \E n \in DOMAIN invoices :
              /\ invoices[n].asaas_payment_id = pay["r1"].id
              /\ invoices[n].installment_number = idx["r1"]

\* C24, step part: a step that sends a gateway request sends one, for the
\* installment after the last invoice inserted, and no step both sends a
\* request and inserts an invoice.
C24_SequentialStep ==
    /\ gwCalled'["r1"] # gwCalled["r1"] =>
          gwCalled'["r1"] = gwCalled["r1"] \cup {Cardinality(InvoicesOf(cl["r1"])) + 1}
    /\ payments' # payments =>
          /\ invoices' = invoices
          /\ \E id \in payments' :
                /\ payments' = payments \cup {id}
                /\ id[2] = Cardinality(InvoicesOf(cl["r1"])) + 1

\* C24: issuance is strictly sequential in installment order: the gateway
\* request for installment i+1 is sent only after the call for installment i
\* completed and its invoice was inserted, so invoices are persisted in
\* increasing installment_number order and one gateway request at most is in
\* flight.
C24_IssuanceIsSequential == []C24_SequentialState /\ [][C24_SequentialStep]_vars

\* C24 witness: the request for installment 3 is about to be sent, with the
\* invoices of installments 1 and 2 persisted in that order.
C24_Witness ==
    /\ pc["r1"] = "create_payment"
    /\ idx["r1"] = 2
    /\ Len(invoices) = 2
    /\ invoices[1].installment_number = 1
    /\ invoices[2].installment_number = 2
    /\ gwCalled["r1"] = {1, 2}

\* C26, state part: the invoices of every client_lots row carry pairwise
\* distinct installment numbers, which are exactly 1..k for their number k,
\* and k is at most the row's total_installments.
C26_PrefixState ==
    \A c \in DOMAIN client_lots :
        LET k == Cardinality(InvoicesOf(c))
        IN  /\ {invoices[n].installment_number : n \in InvoicesOf(c)} = 1..k
            /\ k <= client_lots[c].total_installments

\* C26, step part: an invoice is pending when it is inserted.
C26_CreatedPending ==
    \A n \in DOMAIN invoices' :
        n \notin DOMAIN invoices => invoices'[n].status = "pending"

\* C26: in every state reachable by create_client_lot, the invoices persisted
\* for a ClientLot have pairwise distinct installment numbers that are exactly
\* 1..k for some k <= total_installments, and each is created pending.
C26_InvoicesAreAPrefix == []C26_PrefixState /\ [][C26_CreatedPending]_vars

\* C26 witness: the sale of three installments returned after the insert of
\* the invoice of installment 3 failed: invoices 1 and 2 are persisted.
C26_Witness ==
    /\ pc["r1"] = "done"
    /\ req["r1"].total_installments = 3
    /\ insFailed["r1"] = {3}
    /\ {invoices[n].installment_number : n \in InvoicesOf(cl["r1"])} = {1, 2}

\* C27: a sale to a client whose profile has no asaas_customer_id makes no
\* gateway call and persists no invoice in any state; when the lot was
\* available it returns 201 exactly when its two store writes were made, with
\* the client_lots row active and the lot sold.
C27_NoCustomerNoIssuance ==
    LET r == req["r1"]
    IN  (r.client_id \in ClientIds /\ Clients[r.client_id].asaas_customer_id = None) =>
            /\ gwCalled["r1"] = {}
            /\ payments = {}
            /\ invoices = <<>>
            /\ (pc["r1"] = "done" /\ r.lot_id \in LotIds
                  /\ InitialLots[r.lot_id] = "available") =>
                  /\ result["r1"] = "201 Created" <=>
                        (cl["r1"] \in DOMAIN client_lots /\ lots[r.lot_id] = "sold")
                  /\ result["r1"] = "201 Created" =>
                        /\ client_lots[cl["r1"]].status = "active"
                        /\ client_lots[cl["r1"]].client_id = r.client_id
                        /\ client_lots[cl["r1"]].lot_id = r.lot_id

\* C27 witness: client c3, whose profile has no customer id, bought lot l1 in
\* three installments: 201, the lot sold, no invoice.
C27_Witness ==
    /\ pc["r1"] = "done"
    /\ result["r1"] = "201 Created"
    /\ req["r1"].client_id = "c3"
    /\ req["r1"].total_installments = 3
    /\ lots["l1"] = "sold"
    /\ Len(client_lots) = 1
    /\ invoices = <<>>

\* C28 (as claimed): when create_client_lot has returned, every payment the
\* gateway created during issuance is the asaas_payment_id of exactly one
\* invoice, also when an invoice insert failed after its gateway call.
C28_EveryPaymentHasItsInvoice ==
    pc["r1"] = "done" =>
        \A id \in payments :
            Cardinality({n \in DOMAIN invoices : invoices[n].asaas_payment_id = id}) = 1

----------------------------------------------------------------------------
(* Claims about validate_cpf *)

\* the digits of a string, as numbers
DigitsOf(cpf) ==
    LET d == SelectSeq(cpf, LAMBDA c : c \in {"0", "1", "2", "3", "4", "5", "6", "7", "8", "9"})
    IN  [i \in 1..Len(d) |-> CHOOSE n \in 0..9 : Digit(n) = d[i]]

\* the mod-11 check digit over the first k digits, weights k+1 down to 2
CheckDigit(d, k) ==
    LET W[j \in 0..k] == IF j = 0 THEN 0 ELSE W[j - 1] + d[j] * (k + 2 - j)
        r == W[k] % 11
    IN  IF r < 2 THEN 0 ELSE 11 - r

\* C23: validate_cpf accepts a string iff its digits, all other characters
\* removed, are exactly 11, not all identical, and the 10th and 11th are the
\* mod-11 check digits of the first 9 (weights 10..2) and the first 10 (weights
\* 11..2), a remainder below 2 giving 0; a string and its digits alone get the
\* same verdict.
C23_CpfAcceptedIffCheckDigits ==
    check.called =>
        LET d == DigitsOf(check.cpf)
        IN  /\ check.verdict =
                  (/\ Len(d) = 11
                   /\ \E i \in 1..11 : d[i] # d[1]
                   /\ d[10] = CheckDigit(d, 9)
                   /\ d[11] = CheckDigit(d, 10))
            /\ check.plain_verdict = check.verdict

\* C23 witness: the formatted number 000.000.281-00, whose two remainders
\* are 1, was accepted.
C23_Witness ==
    /\ check.called
    /\ check.cpf = Formatted(<<"0", "0", "0", "0", "0", "0", "2", "8", "1", "0", "0">>)
    /\ check.verdict = TRUE
    /\ check.plain_verdict = TRUE

----------------------------------------------------------------------------
(* Claims about create_client *)

\* C29 (as claimed): when create_client has reported an error, no auth user,
\* profile or client record created by the call remains.
C29_SignupAllOrNothing ==
    (signup.pc = "done" /\ signup.result # "201 Created") =>
        /\ ~signup.user
        /\ ~signup.profile
        /\ ~signup.client

----------------------------------------------------------------------------
(* Claims about the webhook's token header *)

\* C30: for the same body on the same store, the handler's response and its
\* writes to invoices and notifications are the same under any two values of
\* the asaas-access-token header, a missing header included.
C30_OutcomeIndependentOfToken ==
    Handled =>
        /\ last.other_token # last.req.token
        /\ last.other_outcome.resp = last.resp
        /\ last.other_outcome.invoices = invoices
        /\ last.other_outcome.notifications = notifications

\* C30 witness: an overdue event posted without the header was processed, the
\* invoice is overdue and notified, and so it would have been under tok_a.
C30_Witness ==
    /\ Processed
    /\ last.req.token = None
    /\ last.other_token = "tok_a"
    /\ last.resp.new_status = "overdue"
    /\ invoices[last.resp.invoice_id].status = "overdue"
    /\ Len(notifications) = Len(last.pre_notifications) + 1
    /\ last.other_outcome.resp.status = "processed"

====
